---- MODULE Spec2Model ----
(***************************************************************************)
(* Model of wasm/tiff-decoder/src/lib.rs: decode_tiff (the decode          *)
(* orchestrator, the canonical encoder and the stats reducers) and         *)
(* TiffResult::get_data_as_f32 (the float32 view converter).               *)
(*                                                                         *)
(* Number representation.  TLC integers are 32 bits wide, so:              *)
(*  - an integer sample is its numeric value written in base 65536,        *)
(*    least significant digit first, the top digit carrying the sign       *)
(*    (u8/i8/u16/i16: 1 digit, u32/i32: 2 digits, u64/i64: 4 digits);      *)
(*    e.g. the i32 -1 is <<65535, -1>>, the u32 2^24+1 is <<1, 256>>;      *)
(*  - a float is the record of its IEEE-754 fields:                        *)
(*      f16 [sign, exp (5 bits), man (10 bits)]                            *)
(*      f32 [sign, exp (8 bits), man (23 bits)]                            *)
(*      f64 [sign, exp (11 bits), hi (top 23 mantissa bits),               *)
(*           lo (low 29 mantissa bits)]                                    *)
(*  - a bit string is a sequence of 0/1, most significant bit first.       *)
(***************************************************************************)
EXTENDS Integers, Sequences, FiniteSets, TLC

\* Longest sample sequence read_image returns in the model.
MaxLen == 2

(***************************************************************************)
(* Bit strings                                                             *)
(***************************************************************************)
RECURSIVE NatToBits(_, _)
NatToBits(n, w) ==
    IF w = 0 THEN <<>> ELSE NatToBits(n \div 2, w - 1) \o <<n % 2>>

RECURSIVE BitsToNat(_)
BitsToNat(b) ==
    IF b = <<>> THEN 0
    ELSE (2 * BitsToNat(SubSeq(b, 1, Len(b) - 1))) + b[Len(b)]

Zeros(n) == [i \in 1..n |-> 0]

NotBits(b) == [i \in 1..Len(b) |-> 1 - b[i]]

\* b + 1 modulo 2^Len(b)
RECURSIVE IncBits(_)
IncBits(b) ==
    IF b = <<>> THEN <<>>
    ELSE IF b[Len(b)] = 0 THEN SubSeq(b, 1, Len(b) - 1) \o <<1>>
    ELSE IncBits(SubSeq(b, 1, Len(b) - 1)) \o <<0>>

RECURSIVE StripZeros(_)
StripZeros(b) ==
    IF b = <<>> THEN <<>>
    ELSE IF b[1] = 1 THEN b ELSE StripZeros(Tail(b))

AnyOne(b) == \E i \in 1..Len(b) : b[i] = 1

(***************************************************************************)
(* Integer samples                                                         *)
(***************************************************************************)
\* Two's-complement bit pattern of an integer sample; bits is 8 for the
\* 8-bit kinds and 16 per digit otherwise.
RECURSIVE DigitsToBits(_)
DigitsToBits(v) ==
    IF v = <<>> THEN <<>>
    ELSE NatToBits(v[Len(v)] % 65536, 16) \o DigitsToBits(SubSeq(v, 1, Len(v) - 1))

IntToBits(v, bits) ==
    IF bits = 8 THEN NatToBits(v[1] % 256, 8) ELSE DigitsToBits(v)

\* Ord on integers of one type: a < b.
RECURSIVE IntLess(_, _)
IntLess(a, b) ==
    LET n == Len(a) IN
    IF a[n] # b[n] THEN a[n] < b[n]
    ELSE IF n = 1 THEN FALSE
    ELSE IntLess(SubSeq(a, 1, n - 1), SubSeq(b, 1, n - 1))

\* Ord::min / Ord::max as called in compute_stats_*: self.min(other).
IntMin(a, b) == IF IntLess(b, a) THEN b ELSE a
IntMax(a, b) == IF IntLess(a, b) THEN b ELSE a

\* uN/iN::to_le_bytes for the 16/32/64-bit kinds.
RECURSIVE to_le_bytes(_)
to_le_bytes(v) ==
    IF v = <<>> THEN <<>>
    ELSE <<v[1] % 256, (v[1] \div 256) % 256>> \o to_le_bytes(Tail(v))

\* `v as u8` on an i8.
i8_as_u8(v) == v[1] % 256

(***************************************************************************)
(* Integer to float casts (round to nearest, ties to even)                 *)
(***************************************************************************)
\* The fields of the float nearest to (-1)^neg * mag, where mag is an
\* unsigned bit string, p the number of mantissa bits and bias the
\* exponent bias.  frac is the p-bit mantissa field.
RoundToFloat(neg, mag, p, bias) ==
    LET s == StripZeros(mag)
        n == Len(s)
        f == IF n = 0 THEN <<>> ELSE Tail(s)
    IN  IF n = 0 THEN [sign |-> 0, exp |-> 0, frac |-> Zeros(p)]
        ELSE IF n - 1 <= p
        THEN [sign |-> neg, exp |-> bias + n - 1, frac |-> f \o Zeros(p - (n - 1))]
        ELSE LET keep   == SubSeq(f, 1, p)
                 guard  == f[p + 1]
                 sticky == AnyOne(SubSeq(f, p + 2, n - 1))
                 up     == guard = 1 /\ (sticky \/ keep[p] = 1)
                 carry  == up /\ ~AnyOne(NotBits(keep))
             IN  [sign |-> neg,
                  exp  |-> bias + n - 1 + (IF carry THEN 1 ELSE 0),
                  frac |-> IF up THEN IncBits(keep) ELSE keep]

\* Magnitude of an integer sample and its sign.
IntIsNeg(v, signed) == signed /\ v[Len(v)] < 0
IntMagnitude(v, bits, signed) ==
    LET b == IntToBits(v, bits) IN
    IF IntIsNeg(v, signed) THEN IncBits(NotBits(b)) ELSE b

\* `x as f64` on an integer of the given width and signedness.
int_as_f64(v, bits, signed) ==
    LET r == RoundToFloat(IF IntIsNeg(v, signed) THEN 1 ELSE 0,
                          IntMagnitude(v, bits, signed), 52, 1023)
    IN  [sign |-> r.sign, exp |-> r.exp,
         hi |-> BitsToNat(SubSeq(r.frac, 1, 23)),
         lo |-> BitsToNat(SubSeq(r.frac, 24, 52))]

\* `x as f32` on an integer of the given width and signedness.
int_as_f32(v, bits, signed) ==
    LET r == RoundToFloat(IF IntIsNeg(v, signed) THEN 1 ELSE 0,
                          IntMagnitude(v, bits, signed), 23, 127)
    IN  [sign |-> r.sign, exp |-> r.exp, man |-> BitsToNat(r.frac)]

(***************************************************************************)
(* Floats                                                                  *)
(***************************************************************************)
F32_INFINITY     == [sign |-> 0, exp |-> 255, man |-> 0]
F32_NEG_INFINITY == [sign |-> 1, exp |-> 255, man |-> 0]
F64_INFINITY     == [sign |-> 0, exp |-> 2047, hi |-> 0, lo |-> 0]
F64_NEG_INFINITY == [sign |-> 1, exp |-> 2047, hi |-> 0, lo |-> 0]

\* Position of the highest set bit of n > 0.
RECURSIVE HighBit(_)
HighBit(n) == IF n <= 1 THEN 0 ELSE 1 + HighBit(n \div 2)

\* half::f16::to_f32 (exact).
f16_to_f32(h) ==
    IF h.exp = 31
    THEN IF h.man = 0 THEN [sign |-> h.sign, exp |-> 255, man |-> 0]
         ELSE [sign |-> h.sign, exp |-> 255,
               man |-> 4194304 + ((h.man * 8192) % 4194304)]
    ELSE IF h.exp = 0
    THEN IF h.man = 0 THEN [sign |-> h.sign, exp |-> 0, man |-> 0]
         ELSE LET k == HighBit(h.man) IN
              [sign |-> h.sign, exp |-> 103 + k,
               man |-> (h.man - 2^k) * 2^(23 - k)]
    ELSE [sign |-> h.sign, exp |-> h.exp + 112, man |-> h.man * 8192]

f32_is_nan(x)    == x.exp = 255 /\ x.man # 0
f32_is_finite(x) == x.exp # 255

\* `x as f64` on an f32: exact, but for a NaN, which comes out quiet (its
\* top mantissa bit set, the rest of the payload kept).
f32_as_f64(x) ==
    IF x.exp = 255
    THEN [sign |-> x.sign, exp |-> 2047,
          hi |-> IF x.man = 0 THEN 0 ELSE 4194304 + (x.man % 4194304),
          lo |-> 0]
    ELSE IF x.exp = 0
    THEN IF x.man = 0 THEN [sign |-> x.sign, exp |-> 0, hi |-> 0, lo |-> 0]
         ELSE LET k == HighBit(x.man) IN
              [sign |-> x.sign, exp |-> 874 + k,
               hi |-> (x.man - 2^k) * 2^(23 - k), lo |-> 0]
    ELSE [sign |-> x.sign, exp |-> x.exp + 896, hi |-> x.man, lo |-> 0]

\* Order key of a non-NaN f32: a < b iff F32Key(a) < F32Key(b); -0 = +0.
F32Key(x) ==
    LET m == (x.exp * 8388608) + x.man IN IF x.sign = 1 THEN 0 - m ELSE m

\* PartialOrd on f32: any comparison with a NaN is false.
f32_lt(a, b) == ~f32_is_nan(a) /\ ~f32_is_nan(b) /\ F32Key(a) < F32Key(b)
f32_gt(a, b) == f32_lt(b, a)

\* f32::to_le_bytes: the IEEE-754 binary32 pattern, low byte first.
f32_to_le_bytes(x) ==
    << x.man % 256,
       (x.man \div 256) % 256,
       ((x.exp % 2) * 128) + (x.man \div 65536),
       (x.sign * 128) + (x.exp \div 2) >>

\* f32::from_le_bytes.
f32_from_le_bytes(b) ==
    [sign |-> b[4] \div 128,
     exp  |-> ((b[4] % 128) * 2) + (b[3] \div 128),
     man  |-> ((b[3] % 128) * 65536) + (b[2] * 256) + b[1]]

f64_is_nan(x)    == x.exp = 2047 /\ (x.hi # 0 \/ x.lo # 0)
f64_is_finite(x) == x.exp # 2047
f64_is_zero(x)   == x.exp = 0 /\ x.hi = 0 /\ x.lo = 0

\* Magnitude order on non-NaN f64: |a| < |b|.
F64MagLess(a, b) ==
    IF a.exp # b.exp THEN a.exp < b.exp
    ELSE IF a.hi # b.hi THEN a.hi < b.hi
    ELSE a.lo < b.lo

\* PartialOrd on f64: a < b, false when either is NaN; -0 = +0.
f64_lt(a, b) ==
    /\ ~f64_is_nan(a) /\ ~f64_is_nan(b)
    /\ ~(f64_is_zero(a) /\ f64_is_zero(b))
    /\ IF a.sign # b.sign THEN a.sign = 1
       ELSE IF a.sign = 0 THEN F64MagLess(a, b) ELSE F64MagLess(b, a)

\* f64::min / f64::max: the other operand when one is NaN.
f64_min(a, b) ==
    IF f64_is_nan(a) THEN b ELSE IF f64_is_nan(b) THEN a
    ELSE IF f64_lt(b, a) THEN b ELSE a
f64_max(a, b) ==
    IF f64_is_nan(a) THEN b ELSE IF f64_is_nan(b) THEN a
    ELSE IF f64_lt(a, b) THEN b ELSE a

\* `x as f32` on an f64: round to nearest, ties to even; overflow gives
\* an infinity, underflow a subnormal or a zero; a NaN stays a (quiet) NaN.
f64_as_f32(x) ==
    IF x.exp = 2047
    THEN [sign |-> x.sign, exp |-> 255,
          man |-> IF x.hi = 0 /\ x.lo = 0 THEN 0 ELSE 4194304 + (x.hi % 4194304)]
    ELSE LET e == x.exp - 896 IN
         IF e >= 1
         THEN LET up == /\ x.lo >= 268435456
                        /\ (x.lo > 268435456 \/ x.hi % 2 = 1)
                  m  == x.hi + (IF up THEN 1 ELSE 0)
                  e2 == e + (m \div 8388608)
              IN  IF e2 >= 255 THEN [sign |-> x.sign, exp |-> 255, man |-> 0]
                  ELSE [sign |-> x.sign, exp |-> e2, man |-> m % 8388608]
         ELSE LET k == 1 - e IN
              IF k > 25 THEN [sign |-> x.sign, exp |-> 0, man |-> 0]
              ELSE LET big  == 8388608 + x.hi
                       q    == big \div 2^k
                       r    == big % 2^k
                       half == 2^(k - 1)
                       up   == \/ r > half
                               \/ r = half /\ (x.lo # 0 \/ q % 2 = 1)
                       m    == q + (IF up THEN 1 ELSE 0)
                   IN  [sign |-> x.sign, exp |-> m \div 8388608,
                        man |-> m % 8388608]

(***************************************************************************)
(* Stats reducers                                                          *)
(***************************************************************************)
\* The loop `for &v in data { min = min.min(v); max = max.max(v); }`.
RECURSIVE IntStatsLoop(_, _, _)
IntStatsLoop(data, min, max) ==
    IF data = <<>> THEN <<min, max>>
    ELSE IntStatsLoop(Tail(data), IntMin(min, Head(data)), IntMax(max, Head(data)))

compute_stats_u8(data)  == IntStatsLoop(data, <<255>>, <<0>>)
\* Variant of compute_stats_u16 with the two sentinels exchanged.
compute_stats_u16_Swapped(data) == IntStatsLoop(data, <<0>>, <<65535>>)

compute_stats_u16(data) == IntStatsLoop(data, <<65535>>, <<0>>)
compute_stats_u32(data) == IntStatsLoop(data, <<65535, 65535>>, <<0, 0>>)
compute_stats_u64(data) ==
    IntStatsLoop(data, <<65535, 65535, 65535, 65535>>, <<0, 0, 0, 0>>)
compute_stats_i8(data)  == IntStatsLoop(data, <<127>>, <<-128>>)
compute_stats_i16(data) == IntStatsLoop(data, <<32767>>, <<-32768>>)
compute_stats_i32(data) == IntStatsLoop(data, <<65535, 32767>>, <<0, -32768>>)
compute_stats_i64(data) ==
    IntStatsLoop(data, <<65535, 65535, 65535, 32767>>, <<0, 0, 0, -32768>>)

RECURSIVE F32StatsLoop(_, _, _)
F32StatsLoop(data, min, max) ==
    IF data = <<>> THEN <<min, max>>
    ELSE LET v == Head(data) IN
         IF ~f32_is_nan(v) /\ f32_is_finite(v)
         THEN LET v64 == f32_as_f64(v) IN
              F32StatsLoop(Tail(data), f64_min(min, v64), f64_max(max, v64))
         ELSE F32StatsLoop(Tail(data), min, max)

compute_stats_f32(data) == F32StatsLoop(data, F64_INFINITY, F64_NEG_INFINITY)

RECURSIVE F64StatsLoop(_, _, _)
F64StatsLoop(data, min, max) ==
    IF data = <<>> THEN <<min, max>>
    ELSE LET v == Head(data) IN
         IF ~f64_is_nan(v) /\ f64_is_finite(v)
         THEN F64StatsLoop(Tail(data), f64_min(min, v), f64_max(max, v))
         ELSE F64StatsLoop(Tail(data), min, max)

compute_stats_f64(data) == F64StatsLoop(data, F64_INFINITY, F64_NEG_INFINITY)

(***************************************************************************)
(* Canonical encoder: the arms of `match decode_result`                    *)
(***************************************************************************)
\* data.iter().flat_map(|&v| v.to_le_bytes()).collect()
RECURSIVE FlatMapLeBytes(_)
FlatMapLeBytes(data) ==
    IF data = <<>> THEN <<>>
    ELSE to_le_bytes(Head(data)) \o FlatMapLeBytes(Tail(data))

Converted(bytes, format, min, max) ==
    [data_bytes |-> bytes, sample_format |-> format,
     min_val |-> min, max_val |-> max]

ArmU8(data) ==
    LET s == compute_stats_u8(data) IN
    Converted([i \in 1..Len(data) |-> data[i][1]], 1,
              int_as_f64(s[1], 8, FALSE), int_as_f64(s[2], 8, FALSE))

ArmU16(data) ==
    LET s == compute_stats_u16(data) IN
    Converted(FlatMapLeBytes(data), 1,
              int_as_f64(s[1], 16, FALSE), int_as_f64(s[2], 16, FALSE))

ArmU32(data) ==
    LET s == compute_stats_u32(data) IN
    Converted(FlatMapLeBytes(data), 1,
              int_as_f64(s[1], 32, FALSE), int_as_f64(s[2], 32, FALSE))

ArmU64(data) ==
    LET s == compute_stats_u64(data) IN
    Converted(FlatMapLeBytes(data), 1,
              int_as_f64(s[1], 64, FALSE), int_as_f64(s[2], 64, FALSE))

\* Variant of the I8 arm that tags its bytes as unsigned.
ArmI8_TaggedUnsigned(data) ==
    LET s == compute_stats_i8(data) IN
    Converted([i \in 1..Len(data) |-> i8_as_u8(data[i])], 1,
              int_as_f64(s[1], 8, TRUE), int_as_f64(s[2], 8, TRUE))

ArmI8(data) ==
    LET s == compute_stats_i8(data) IN
    Converted([i \in 1..Len(data) |-> i8_as_u8(data[i])], 2,
              int_as_f64(s[1], 8, TRUE), int_as_f64(s[2], 8, TRUE))

ArmI16(data) ==
    LET s == compute_stats_i16(data) IN
    Converted(FlatMapLeBytes(data), 2,
              int_as_f64(s[1], 16, TRUE), int_as_f64(s[2], 16, TRUE))

ArmI32(data) ==
    LET s == compute_stats_i32(data) IN
    Converted(FlatMapLeBytes(data), 2,
              int_as_f64(s[1], 32, TRUE), int_as_f64(s[2], 32, TRUE))

ArmI64(data) ==
    LET s == compute_stats_i64(data) IN
    Converted(FlatMapLeBytes(data), 2,
              int_as_f64(s[1], 64, TRUE), int_as_f64(s[2], 64, TRUE))

\* for &val in &data { bytes.extend_from_slice(&val.to_le_bytes()); }
RECURSIVE F32Bytes(_)
F32Bytes(data) ==
    IF data = <<>> THEN <<>>
    ELSE f32_to_le_bytes(Head(data)) \o F32Bytes(Tail(data))

ArmF32(data) ==
    LET s == compute_stats_f32(data) IN
    Converted(F32Bytes(data), 3, s[1], s[2])

\* Variant of F64Bytes that appends val.to_le_bytes(), the 8 bytes of the f64.
RECURSIVE F64Bytes_Unnarrowed(_)
F64Bytes_Unnarrowed(data) ==
    IF data = <<>> THEN <<>>
    ELSE LET x == Head(data) IN
         << x.lo % 256, (x.lo \div 256) % 256, (x.lo \div 65536) % 256,
            (x.lo \div 16777216) + ((x.hi % 8) * 32),
            (x.hi \div 8) % 256, (x.hi \div 2048) % 256,
            (x.hi \div 524288) + ((x.exp % 16) * 16),
            (x.sign * 128) + (x.exp \div 16) >>
         \o F64Bytes_Unnarrowed(Tail(data))

\* for &val in &data { bytes.extend_from_slice(&(val as f32).to_le_bytes()); }
RECURSIVE F64Bytes(_)
F64Bytes(data) ==
    IF data = <<>> THEN <<>>
    ELSE f32_to_le_bytes(f64_as_f32(Head(data))) \o F64Bytes(Tail(data))

ArmF64(data) ==
    LET s == compute_stats_f64(data) IN
    Converted(F64Bytes(data), 3, s[1], s[2])

\* The F16 loop: one pass that widens, compares and appends.
RECURSIVE F16Loop(_, _, _, _)
F16Loop(data, bytes, min_val, max_val) ==
    IF data = <<>> THEN <<bytes, min_val, max_val>>
    ELSE LET f32_val == f16_to_f32(Head(data)) IN
         F16Loop(Tail(data),
                 bytes \o f32_to_le_bytes(f32_val),
                 IF f32_lt(f32_val, min_val) THEN f32_val ELSE min_val,
                 IF f32_gt(f32_val, max_val) THEN f32_val ELSE max_val)

ArmF16(data) ==
    LET r == F16Loop(data, <<>>, F32_INFINITY, F32_NEG_INFINITY) IN
    Converted(r[1], 3, f32_as_f64(r[2]), f32_as_f64(r[3]))

MatchDecodeResult(dr) ==
    CASE dr.kind = "U8"  -> ArmU8(dr.data)
      [] dr.kind = "U16" -> ArmU16(dr.data)
      [] dr.kind = "U32" -> ArmU32(dr.data)
      [] dr.kind = "U64" -> ArmU64(dr.data)
      [] dr.kind = "I8"  -> ArmI8(dr.data)
      [] dr.kind = "I16" -> ArmI16(dr.data)
      [] dr.kind = "I32" -> ArmI32(dr.data)
      [] dr.kind = "I64" -> ArmI64(dr.data)
      [] dr.kind = "F32" -> ArmF32(dr.data)
      [] dr.kind = "F64" -> ArmF64(dr.data)
      [] dr.kind = "F16" -> ArmF16(dr.data)

(***************************************************************************)
(* Float32 view converter                                                  *)
(***************************************************************************)
RECURSIVE chunks_exact(_, _)
chunks_exact(data, n) ==
    IF Len(data) < n THEN <<>>
    ELSE <<SubSeq(data, 1, n)>> \o chunks_exact(SubSeq(data, n + 1, Len(data)), n)

u16_from_le_bytes(b) == <<b[1] + (256 * b[2])>>
u32_from_le_bytes(b) == <<b[1] + (256 * b[2]), b[3] + (256 * b[4])>>

\* Variant of get_data_as_f32 with an arm for 64-bit integers.
get_data_as_f32_With64(self) ==
    IF self.sample_format = 3
    THEN LET c == chunks_exact(self.data, 4) IN
         [i \in 1..Len(c) |-> f32_from_le_bytes(c[i])]
    ELSE IF self.sample_format \in {1, 2}
    THEN IF self.bits_per_sample = 8
         THEN [i \in 1..Len(self.data) |-> int_as_f32(<<self.data[i]>>, 8, FALSE)]
         ELSE IF self.bits_per_sample = 16
         THEN LET c == chunks_exact(self.data, 2) IN
              [i \in 1..Len(c) |-> int_as_f32(u16_from_le_bytes(c[i]), 16, FALSE)]
         ELSE IF self.bits_per_sample = 32
         THEN LET c == chunks_exact(self.data, 4) IN
              [i \in 1..Len(c) |-> int_as_f32(u32_from_le_bytes(c[i]), 32, FALSE)]
         ELSE IF self.bits_per_sample = 64
         THEN LET c == chunks_exact(self.data, 8) IN
              [i \in 1..Len(c) |->
                  int_as_f32(u32_from_le_bytes(SubSeq(c[i], 1, 4))
                             \o u32_from_le_bytes(SubSeq(c[i], 5, 8)), 64, FALSE)]
         ELSE <<>>
    ELSE <<>>

get_data_as_f32(self) ==
    IF self.sample_format = 3
    THEN LET c == chunks_exact(self.data, 4) IN
         [i \in 1..Len(c) |-> f32_from_le_bytes(c[i])]
    ELSE IF self.sample_format \in {1, 2}
    THEN IF self.bits_per_sample = 8
         THEN [i \in 1..Len(self.data) |-> int_as_f32(<<self.data[i]>>, 8, FALSE)]
         ELSE IF self.bits_per_sample = 16
         THEN LET c == chunks_exact(self.data, 2) IN
              [i \in 1..Len(c) |-> int_as_f32(u16_from_le_bytes(c[i]), 16, FALSE)]
         ELSE IF self.bits_per_sample = 32
         THEN LET c == chunks_exact(self.data, 4) IN
              [i \in 1..Len(c) |-> int_as_f32(u32_from_le_bytes(c[i]), 32, FALSE)]
         ELSE <<>>
    ELSE <<>>

(***************************************************************************)
(* What the external decoder can answer                                    *)
(***************************************************************************)
\* decoder.dimensions()
Dimensions == {<<1, 1>>, <<2, 1>>}

\* decoder.colortype(): tiff::ColorType variants with their bit depth;
\* YCbCr stands for the variants the two matches send to `_`.
ColorTypes ==
    {[variant |-> "Gray",  bits |-> 8],  [variant |-> "Gray", bits |-> 4],
     [variant |-> "GrayA", bits |-> 16], [variant |-> "RGB",  bits |-> 32],
     [variant |-> "RGBA",  bits |-> 64], [variant |-> "CMYK", bits |-> 8],
     [variant |-> "YCbCr", bits |-> 16]}

\* The outcome of a fallible decoder method, as far as decode_tiff looks at it.
CallOk  == [ok |-> TRUE, v |-> 0]
CallErr == [ok |-> FALSE, v |-> 0]

\* decoder.get_tag_u32(tag): Err, or Ok(v).
TagErr    == [ok |-> FALSE, v |-> 0]
TagOk(v)  == [ok |-> TRUE, v |-> v]
TagResults == {TagErr, TagOk(2)}

\* Result::unwrap_or
unwrap_or(r, default) == IF r.ok THEN r.v ELSE default

\* The samples read_image can return, per DecodingResult variant.
\* decode_tiff takes the variant from read_image and the depth from
\* colortype without relating the two, so every pairing is admitted.
SampleValues ==
    [U8  |-> {<<0>>, <<10>>, <<255>>},
     U16 |-> {<<0>>, <<258>>, <<65535>>},
     U32 |-> {<<0, 0>>, <<1, 256>>, <<65535, 65535>>},
     U64 |-> {<<0, 0, 0, 0>>, <<1, 0, 0, 32>>, <<65535, 65535, 65535, 65535>>},
     I8  |-> {<<-128>>, <<-1>>, <<127>>},
     I16 |-> {<<-32768>>, <<-1>>, <<258>>},
     I32 |-> {<<0, -32768>>, <<65535, -1>>, <<1, 256>>},
     I64 |-> {<<0, 0, 0, -32768>>, <<65535, 65535, 65535, -1>>, <<1, 0, 0, 32>>},
     F32 |-> {[sign |-> 0, exp |-> 127, man |-> 0],
              [sign |-> 1, exp |-> 129, man |-> 2097152],
              [sign |-> 0, exp |-> 255, man |-> 4194304],
              [sign |-> 0, exp |-> 255, man |-> 0],
              [sign |-> 1, exp |-> 255, man |-> 0]},
     F64 |-> {[sign |-> 0, exp |-> 1024, hi |-> 4788186, lo |-> 340012305],
              [sign |-> 1, exp |-> 1025, hi |-> 2097152, lo |-> 0],
              [sign |-> 0, exp |-> 2047, hi |-> 4194304, lo |-> 0],
              [sign |-> 0, exp |-> 2047, hi |-> 0, lo |-> 0],
              [sign |-> 1, exp |-> 2047, hi |-> 0, lo |-> 0]},
     F16 |-> {[sign |-> 0, exp |-> 15, man |-> 0],
              [sign |-> 1, exp |-> 17, man |-> 256],
              [sign |-> 0, exp |-> 31, man |-> 512],
              [sign |-> 0, exp |-> 31, man |-> 0],
              [sign |-> 1, exp |-> 31, man |-> 0]}]

Kinds == DOMAIN SampleValues

SeqsUpTo(S, n) == UNION {[1..k -> S] : k \in 0..n}

\* decoder.read_image() on success: the sample sequences of one variant.
DecodedData(k) == SeqsUpTo(SampleValues[k], MaxLen)

(***************************************************************************)
(* State                                                                   *)
(***************************************************************************)
VARIABLES
    pc,                          \* the statement decode_tiff executes next
    calls,                       \* the decoder methods invoked so far, with their outcome
    width, height,
    color_type, channels, bits_per_sample,
    compression, predictor, photometric_interpretation, planar_configuration,
    decode_result,
    ret,                         \* what decode_tiff returned: Ok(TiffResult) or Err(JsValue)
    f32_view                     \* what get_data_as_f32 returned

locals == <<width, height, color_type, channels, bits_per_sample,
            compression, predictor, photometric_interpretation,
            planar_configuration, decode_result>>
vars == <<pc, calls, locals, ret, f32_view>>

None    == [tag |-> "None"]
Ok(v)   == [tag |-> "Ok", value |-> v]
Err(e)  == [tag |-> "Err", error |-> e]

Init ==
    /\ pc = "Decoder::new"
    /\ calls = <<>>
    /\ width = 0 /\ height = 0
    /\ color_type = None /\ channels = 0 /\ bits_per_sample = 0
    /\ compression = 0 /\ predictor = 0
    /\ photometric_interpretation = 0 /\ planar_configuration = 0
    /\ decode_result = None
    /\ ret = None
    /\ f32_view = None

Called(op, outcome) == calls' = Append(calls, <<op, outcome>>)

\* `expr.map_err(|e| JsValue::from_str(..))?` on an Err: return it.
Fail(op, message) ==
    /\ Called(op, CallErr)
    /\ pc' = "returned"
    /\ ret' = Err(message)

(***************************************************************************)
(* decode_tiff, statement by statement.  The timing and console logging   *)
(* of lines 135, 184 and 292-295 read and write none of the state below.   *)
(***************************************************************************)
NewDecoder ==
    /\ pc = "Decoder::new"
    /\ \/ /\ Called("Decoder::new", CallOk)
          /\ pc' = "dimensions"
          /\ UNCHANGED ret
       \/ Fail("Decoder::new", "Failed to create decoder")
    /\ UNCHANGED <<locals, f32_view>>

GetDimensions ==
    /\ pc = "dimensions"
    /\ \/ \E d \in Dimensions :
            /\ Called("dimensions", CallOk)
            /\ width' = d[1] /\ height' = d[2]
            /\ pc' = "colortype"
            /\ UNCHANGED ret
       \/ /\ Fail("dimensions", "Failed to get dimensions")
          /\ UNCHANGED <<width, height>>
    /\ UNCHANGED <<color_type, channels, bits_per_sample, compression, predictor,
                   photometric_interpretation, planar_configuration,
                   decode_result, f32_view>>

ChannelsOf(ct) ==
    CASE ct.variant = "Gray"  -> 1
      [] ct.variant = "GrayA" -> 2
      [] ct.variant = "RGB"   -> 3
      [] ct.variant = "RGBA"  -> 4
      [] ct.variant = "CMYK"  -> 4
      [] OTHER                -> 1

BitsPerSampleOf(ct) ==
    IF ct.variant \in {"Gray", "GrayA", "RGB", "RGBA", "CMYK"} THEN ct.bits ELSE 8

\* Variant of GetColorType that goes on after a failed colortype().
GetColorType_Unchecked ==
    /\ pc = "colortype"
    /\ \/ \E ct \in ColorTypes :
            /\ Called("colortype", CallOk)
            /\ color_type' = ct
            /\ channels' = ChannelsOf(ct)
            /\ bits_per_sample' = BitsPerSampleOf(ct)
       \/ /\ Called("colortype", CallErr)
          /\ color_type' = [variant |-> "YCbCr", bits |-> 8]
          /\ channels' = 1
          /\ bits_per_sample' = 8
    /\ pc' = "Compression"
    /\ UNCHANGED <<width, height, compression, predictor,
                   photometric_interpretation, planar_configuration,
                   decode_result, ret, f32_view>>

GetColorType ==
    /\ pc = "colortype"
    /\ \/ \E ct \in ColorTypes :
            /\ Called("colortype", CallOk)
            /\ color_type' = ct
            /\ channels' = ChannelsOf(ct)
            /\ bits_per_sample' = BitsPerSampleOf(ct)
            /\ pc' = "Compression"
            /\ UNCHANGED ret
       \/ /\ Fail("colortype", "Failed to get color type")
          /\ UNCHANGED <<color_type, channels, bits_per_sample>>
    /\ UNCHANGED <<width, height, compression, predictor,
                   photometric_interpretation, planar_configuration,
                   decode_result, f32_view>>

GetCompression ==
    /\ pc = "Compression"
    /\ \E r \in TagResults :
         /\ Called("get_tag_u32(Compression)", r)
         /\ compression' = unwrap_or(r, 1)
    /\ pc' = "Predictor"
    /\ UNCHANGED <<width, height, color_type, channels, bits_per_sample, predictor,
                   photometric_interpretation, planar_configuration,
                   decode_result, ret, f32_view>>

\* Variant of GetPredictor that propagates a failed lookup with `?`.
GetPredictor_Propagating ==
    /\ pc = "Predictor"
    /\ \E r \in TagResults :
         /\ Called("get_tag_u32(Predictor)", r)
         /\ IF r.ok
            THEN predictor' = r.v /\ pc' = "PhotometricInterpretation"
                 /\ UNCHANGED ret
            ELSE predictor' = predictor /\ pc' = "returned"
                 /\ ret' = Err("Failed to get predictor")
    /\ UNCHANGED <<width, height, color_type, channels, bits_per_sample, compression,
                   photometric_interpretation, planar_configuration,
                   decode_result, f32_view>>

GetPredictor ==
    /\ pc = "Predictor"
    /\ \E r \in TagResults :
         /\ Called("get_tag_u32(Predictor)", r)
         /\ predictor' = unwrap_or(r, 1)
    /\ pc' = "PhotometricInterpretation"
    /\ UNCHANGED <<width, height, color_type, channels, bits_per_sample, compression,
                   photometric_interpretation, planar_configuration,
                   decode_result, ret, f32_view>>

GetPhotometricInterpretation ==
    /\ pc = "PhotometricInterpretation"
    /\ \E r \in TagResults :
         /\ Called("get_tag_u32(PhotometricInterpretation)", r)
         /\ photometric_interpretation' = unwrap_or(r, 1)
    /\ pc' = "PlanarConfiguration"
    /\ UNCHANGED <<width, height, color_type, channels, bits_per_sample, compression,
                   predictor, planar_configuration, decode_result, ret, f32_view>>

GetPlanarConfiguration ==
    /\ pc = "PlanarConfiguration"
    /\ \E r \in TagResults :
         /\ Called("get_tag_u32(PlanarConfiguration)", r)
         /\ planar_configuration' = unwrap_or(r, 1)
    /\ pc' = "read_image"
    /\ UNCHANGED <<width, height, color_type, channels, bits_per_sample, compression,
                   predictor, photometric_interpretation, decode_result, ret,
                   f32_view>>

ReadImage ==
    /\ pc = "read_image"
    /\ \/ \E k \in Kinds : \E d \in DecodedData(k) :
            /\ Called("read_image", CallOk)
            /\ decode_result' = [kind |-> k, data |-> d]
            /\ pc' = "match"
            /\ UNCHANGED ret
       \/ /\ Fail("read_image", "Failed to decode image")
          /\ UNCHANGED decode_result
    /\ UNCHANGED <<width, height, color_type, channels, bits_per_sample, compression,
                   predictor, photometric_interpretation, planar_configuration,
                   f32_view>>

\* `match decode_result { .. }`, then `Ok(TiffResult { .. })`.
TiffResult(c) ==
    [width |-> width, height |-> height, channels |-> channels,
     bits_per_sample |-> bits_per_sample,
     sample_format |-> c.sample_format,
     compression |-> compression, predictor |-> predictor,
     photometric_interpretation |-> photometric_interpretation,
     planar_configuration |-> planar_configuration,
     data |-> c.data_bytes,
     min_value |-> c.min_val, max_value |-> c.max_val]

ConvertAndReturn ==
    /\ pc = "match"
    /\ ret' = Ok(TiffResult(MatchDecodeResult(decode_result)))
    /\ pc' = "returned"
    /\ UNCHANGED <<calls, locals, f32_view>>

(***************************************************************************)
(* TiffResult::get_data_as_f32, called by the host on a returned result    *)
(***************************************************************************)
\* The host may call it any number of times; as it changes nothing, one
\* call per result is modelled.
GetDataAsF32 ==
    /\ pc = "returned"
    /\ ret.tag = "Ok"
    /\ f32_view = None
    /\ f32_view' = [tag |-> "Some", value |-> get_data_as_f32(ret.value)]
    /\ UNCHANGED <<pc, calls, locals, ret>>

Next ==
    \/ NewDecoder
    \/ GetDimensions
    \/ GetColorType
    \/ GetCompression
    \/ GetPredictor
    \/ GetPhotometricInterpretation
    \/ GetPlanarConfiguration
    \/ ReadImage
    \/ ConvertAndReturn
    \/ GetDataAsF32

Spec == Init /\ [][Next]_vars

(***************************************************************************)
(* Vocabulary of the properties                                            *)
(***************************************************************************)
Returned == pc = "returned" /\ ret.tag = "Ok"
Viewed   == f32_view.tag = "Some"

UnsignedKinds == {"U8", "U16", "U32", "U64"}
SignedKinds   == {"I8", "I16", "I32", "I64"}
IntKinds      == UnsignedKinds \cup SignedKinds
FloatKinds    == {"F32", "F64", "F16"}

\* Bit depth of the samples of a kind.
KindBits(k) ==
    CASE k \in {"U8", "I8"}          -> 8
      [] k \in {"U16", "I16", "F16"} -> 16
      [] k \in {"U32", "I32", "F32"} -> 32
      [] k \in {"U64", "I64", "F64"} -> 64

\* The numeric value of a sample as an f64 (exact for every kind but the
\* 64-bit integers, which round to nearest).
SampleAsF64(k, x) ==
    CASE k \in IntKinds -> int_as_f64(x, KindBits(k), k \in SignedKinds)
      [] k = "F32"      -> f32_as_f64(x)
      [] k = "F64"      -> x
      [] k = "F16"      -> f32_as_f64(f16_to_f32(x))

\* Neither NaN nor an infinity (every integer is finite).
SampleIsFinite(k, x) ==
    CASE k \in IntKinds -> TRUE
      [] k = "F32"      -> x.exp # 255
      [] k = "F64"      -> x.exp # 2047
      [] k = "F16"      -> x.exp # 31

FiniteValues(dr) ==
    {SampleAsF64(dr.kind, dr.data[i]) :
        i \in {j \in 1..Len(dr.data) : SampleIsFinite(dr.kind, dr.data[j])}}

IsMinimumOf(m, F) == m \in F /\ \A v \in F : ~f64_lt(v, m)
IsMaximumOf(m, F) == m \in F /\ \A v \in F : ~f64_lt(m, v)

(***************************************************************************)
(* C1                                                                      *)
(***************************************************************************)
\* C1: for each of the three float kinds, when the samples hold at least
\* one finite value, minValue and maxValue of the Result are the minimum
\* and the maximum of the finite samples; NaN and the infinities never
\* become minValue or maxValue.
C1_FloatStatsSkipNonFinite ==
    (Returned /\ decode_result.kind \in FloatKinds
              /\ FiniteValues(decode_result) # {})
    => /\ IsMinimumOf(ret.value.min_value, FiniteValues(decode_result))
       /\ IsMaximumOf(ret.value.max_value, FiniteValues(decode_result))

(***************************************************************************)
(* C2                                                                      *)
(***************************************************************************)
\* C2: for the integer kinds of depth 8, 16 and 32, signed or not, with
\* bitsPerSample equal to the depth, the buffer holds N x width bytes and
\* get_data_as_f32 returns the N samples, each cast numerically to f32.
C2_IntegerRoundTrip ==
    (Viewed /\ decode_result.kind \in {"U8", "U16", "U32", "I8", "I16", "I32"}
            /\ ret.value.bits_per_sample = KindBits(decode_result.kind))
    => LET k == decode_result.kind
           d == decode_result.data
       IN  /\ Len(ret.value.data) = Len(d) * (KindBits(k) \div 8)
           /\ Len(f32_view.value) = Len(d)
           /\ \A i \in 1..Len(d) :
                f32_view.value[i] = int_as_f32(d[i], KindBits(k), k \in SignedKinds)

(***************************************************************************)
(* C3                                                                      *)
(***************************************************************************)
StepOrder ==
    << "Decoder::new", "dimensions", "colortype",
       "get_tag_u32(Compression)", "get_tag_u32(Predictor)",
       "get_tag_u32(PhotometricInterpretation)",
       "get_tag_u32(PlanarConfiguration)", "read_image" >>

FallibleSteps == {"Decoder::new", "dimensions", "colortype", "read_image"}

ErrorOf(op) ==
    CASE op = "Decoder::new" -> "Failed to create decoder"
      [] op = "dimensions"   -> "Failed to get dimensions"
      [] op = "colortype"    -> "Failed to get color type"
      [] op = "read_image"   -> "Failed to decode image"

FailedAt(i) == calls[i][1] \in FallibleSteps /\ ~calls[i][2].ok

\* C3: the decoder is called in the order new, dimensions, colortype, the
\* four tag lookups, read_image; a failure of new, dimensions, colortype
\* or read_image is the last call made, decode_tiff returns that step's
\* error and no Result; a Result is returned only after all eight calls
\* with the four fallible ones successful.
C3_FailFastInOrder ==
    /\ Len(calls) <= Len(StepOrder)
    /\ \A i \in 1..Len(calls) : calls[i][1] = StepOrder[i]
    /\ \A i \in 1..Len(calls) :
         FailedAt(i) => /\ i = Len(calls)
                        /\ pc = "returned"
                        /\ ret = Err(ErrorOf(calls[i][1]))
    /\ ret.tag = "Err" => Len(calls) >= 1 /\ FailedAt(Len(calls))
    /\ ret.tag = "Ok"  => /\ Len(calls) = Len(StepOrder)
                          /\ \A i \in 1..Len(calls) : ~FailedAt(i)

C3_Witness ==
    /\ pc = "returned"
    /\ ret = Err("Failed to get color type")
    /\ Len(calls) = 3
    /\ calls[2] = <<"dimensions", CallOk>>
    /\ calls[3] = <<"colortype", CallErr>>

(***************************************************************************)
(* C4                                                                      *)
(***************************************************************************)
\* C4: the data buffer of a Result holds exactly N x w bytes for the N
\* samples read, w being 1 for the 8-bit integers, 2, 4 and 8 for the 16,
\* 32 and 64-bit integers, and 4 for F32, F64 and F16 alike.
C4_BufferLength ==
    Returned =>
      LET k == decode_result.kind
          w == CASE k \in {"U8", "I8"}   -> 1
                 [] k \in {"U16", "I16"} -> 2
                 [] k \in {"U32", "I32"} -> 4
                 [] k \in {"U64", "I64"} -> 8
                 [] k \in {"F32", "F64", "F16"} -> 4
      IN  Len(ret.value.data) = Len(decode_result.data) * w

C4_Witness ==
    /\ Returned
    /\ decode_result.kind = "F64"
    /\ Len(decode_result.data) = 2
    /\ Len(ret.value.data) = 8

(***************************************************************************)
(* C5                                                                      *)
(***************************************************************************)
\* C5: the sample format of a Result is 1 for the unsigned kinds, 2 for
\* the signed kinds and 3 for the float kinds, whatever the samples, the
\* color type, bitsPerSample and the metadata tags are.
C5_SampleFormatOfKind ==
    Returned =>
      /\ ret.value.sample_format \in {1, 2, 3}
      /\ ret.value.sample_format = 1 <=> decode_result.kind \in {"U8", "U16", "U32", "U64"}
      /\ ret.value.sample_format = 2 <=> decode_result.kind \in {"I8", "I16", "I32", "I64"}
      /\ ret.value.sample_format = 3 <=> decode_result.kind \in {"F32", "F64", "F16"}

C5_Witness ==
    /\ Returned
    /\ decode_result.kind = "I8"
    /\ ret.value.sample_format = 2
    /\ ret.value.bits_per_sample = 64
    /\ ret.value.compression = 2

(***************************************************************************)
(* C6                                                                      *)
(***************************************************************************)
\* The outcome of the i-th tag lookup (calls 4 to 7).
Lookup(i) == calls[3 + i][2]
Looked(i) == IF Lookup(i).ok THEN Lookup(i).v ELSE 1

\* C6: each of compression, predictor, photometricInterpretation and
\* planarConfiguration equals its tag's value when the lookup succeeded
\* and 1 when it failed, independently of the three other lookups, and a
\* failed lookup never makes decode_tiff return an error.
C6_MetadataDefaults ==
    /\ Len(calls) >= 4 => compression = Looked(1)
    /\ Len(calls) >= 5 => predictor = Looked(2)
    /\ Len(calls) >= 6 => photometric_interpretation = Looked(3)
    /\ Len(calls) >= 7 => planar_configuration = Looked(4)
    /\ Returned =>
         /\ ret.value.compression = Looked(1)
         /\ ret.value.predictor = Looked(2)
         /\ ret.value.photometric_interpretation = Looked(3)
         /\ ret.value.planar_configuration = Looked(4)
    /\ ret.tag = "Err" => calls[Len(calls)][1] \in FallibleSteps

C6_Witness ==
    /\ Returned
    /\ ~Lookup(1).ok /\ Lookup(2) = TagOk(2)
    /\ ~Lookup(3).ok /\ Lookup(4) = TagOk(2)
    /\ ret.value.compression = 1 /\ ret.value.predictor = 2
    /\ ret.value.photometric_interpretation = 1
    /\ ret.value.planar_configuration = 2

(***************************************************************************)
(* C7                                                                      *)
(***************************************************************************)
\* C7: for each of the three float kinds, when the samples hold no finite
\* value (none at all, or only NaN and infinities), decode_tiff succeeds
\* with minValue = +Infinity and maxValue = -Infinity.
C7_NoFiniteSampleKeepsSentinels ==
    (Returned /\ decode_result.kind \in FloatKinds
              /\ FiniteValues(decode_result) = {})
    => /\ ret.value.min_value = F64_INFINITY
       /\ ret.value.max_value = F64_NEG_INFINITY

(***************************************************************************)
(* C8                                                                      *)
(***************************************************************************)
\* C8: when the samples hold at least one finite value (any sample of an
\* integer kind counts), minValue <= maxValue and both are values of
\* finite samples.
C8_MinAtMostMaxAmongSamples ==
    (Returned /\ FiniteValues(decode_result) # {})
    => /\ ~f64_lt(ret.value.max_value, ret.value.min_value)
       /\ ret.value.min_value \in FiniteValues(decode_result)
       /\ ret.value.max_value \in FiniteValues(decode_result)

(***************************************************************************)
(* C9                                                                      *)
(***************************************************************************)
\* The f64 nearest to the largest and to the smallest value of each
\* integer type (2^64 and 2^63 for u64::MAX and i64::MAX).
TypeMaxF64(k) ==
    CASE k = "U8"  -> [sign |-> 0, exp |-> 1030, hi |-> 8323072, lo |-> 0]
      [] k = "U16" -> [sign |-> 0, exp |-> 1038, hi |-> 8388352, lo |-> 0]
      [] k = "U32" -> [sign |-> 0, exp |-> 1054, hi |-> 8388607, lo |-> 534773760]
      [] k = "U64" -> [sign |-> 0, exp |-> 1087, hi |-> 0, lo |-> 0]
      [] k = "I8"  -> [sign |-> 0, exp |-> 1029, hi |-> 8257536, lo |-> 0]
      [] k = "I16" -> [sign |-> 0, exp |-> 1037, hi |-> 8388096, lo |-> 0]
      [] k = "I32" -> [sign |-> 0, exp |-> 1053, hi |-> 8388607, lo |-> 532676608]
      [] k = "I64" -> [sign |-> 0, exp |-> 1086, hi |-> 0, lo |-> 0]

TypeMinF64(k) ==
    CASE k \in UnsignedKinds -> [sign |-> 0, exp |-> 0, hi |-> 0, lo |-> 0]
      [] k = "I8"  -> [sign |-> 1, exp |-> 1030, hi |-> 0, lo |-> 0]
      [] k = "I16" -> [sign |-> 1, exp |-> 1038, hi |-> 0, lo |-> 0]
      [] k = "I32" -> [sign |-> 1, exp |-> 1054, hi |-> 0, lo |-> 0]
      [] k = "I64" -> [sign |-> 1, exp |-> 1086, hi |-> 0, lo |-> 0]

\* C9: for each of the eight integer kinds, an empty sample sequence gives
\* a Result whose minValue is the type's maximum and whose maxValue is the
\* type's minimum (as f64), so that minValue > maxValue.
C9_EmptyIntegerStatsInverted ==
    (Returned /\ decode_result.kind \in IntKinds /\ decode_result.data = <<>>)
    => /\ ret.value.min_value = TypeMaxF64(decode_result.kind)
       /\ ret.value.max_value = TypeMinF64(decode_result.kind)
       /\ f64_lt(ret.value.max_value, ret.value.min_value)

C9_Witness ==
    /\ Returned
    /\ decode_result = [kind |-> "I16", data |-> <<>>]
    /\ ret.value.min_value = [sign |-> 0, exp |-> 1037, hi |-> 8388096, lo |-> 0]
    /\ ret.value.max_value = [sign |-> 1, exp |-> 1038, hi |-> 0, lo |-> 0]
    /\ ret.value.data = <<>>

(***************************************************************************)
(* C10                                                                     *)
(***************************************************************************)
\* Number of values get_data_as_f32 is to return for a format tag, a
\* bitsPerSample and a buffer length.
ViewLength(format, bits, L) ==
    CASE format = 3 -> L \div 4
      [] format \in {1, 2} /\ bits = 8  -> L
      [] format \in {1, 2} /\ bits = 16 -> L \div 2
      [] format \in {1, 2} /\ bits = 32 -> L \div 4
      [] OTHER -> 0

\* C10: get_data_as_f32 has a value on every Result and returns
\* floor(L/4) values for tag 3 whatever bitsPerSample is, L, floor(L/2),
\* floor(L/4) values for tag 1 or 2 with bitsPerSample 8, 16, 32, and no
\* value for any other bitsPerSample; the call leaves the Result unchanged.
C10_ViewLengthAndPurity ==
    /\ [](/\ Returned =>
               Len(get_data_as_f32(ret.value)) =
                  ViewLength(ret.value.sample_format, ret.value.bits_per_sample,
                             Len(ret.value.data))
          /\ Viewed =>
               Len(f32_view.value) =
                  ViewLength(ret.value.sample_format, ret.value.bits_per_sample,
                             Len(ret.value.data)))
    /\ [][f32_view' # f32_view => f32_view'.tag = "Some" /\ ret' = ret]_vars

C10_Witness ==
    /\ Viewed
    /\ decode_result.kind = "U64" /\ Len(decode_result.data) = 2
    /\ ret.value.sample_format = 1
    /\ ret.value.bits_per_sample = 64
    /\ Len(ret.value.data) = 16
    /\ f32_view.value = <<>>
====
